---------------------------- MODULE Spec2Model ----------------------------
(***************************************************************************)
(* A model of image-sorter (src/src/main.rs): the per-file driver          *)
(* handle_file, the date fallback chain extract_date_time, the placement   *)
(* recursion validate_and_resolve_path_problems and the relocation step    *)
(* of sort_file, over an explicit file system.                             *)
(*                                                                         *)
(* A file name is a sequence of one-character strings, a path is a record  *)
(* [dir, name] whose dir is a sequence of path components.                 *)
(***************************************************************************)
EXTENDS Integers, Sequences, FiniteSets, TLC

(***************************************************************************)
(* Bounds of the model.                                                    *)
(***************************************************************************)
\* frames of validate_and_resolve_path_problems the stack holds before the
\* process dies of stack exhaustion
MaxDepth == 4
\* answers outside the offered options that the operator types at one prompt
MaxInvalid == 1

(***************************************************************************)
(* Characters and strings.                                                 *)
(***************************************************************************)
Digits == <<"0", "1", "2", "3", "4", "5", "6", "7", "8", "9">>

UpperCase == <<"J", "P", "G", "M">>

LowerCase == <<"j", "p", "g", "m">>

IsDigit(c) == \E i \in 1..Len(Digits) : Digits[i] = c

DigitVal(c) == (CHOOSE i \in 1..Len(Digits) : Digits[i] = c) - 1

\* char::to_lowercase, on the letters the model's names use
LowerChar(c) ==
    IF \E i \in 1..Len(UpperCase) : UpperCase[i] = c
    THEN LowerCase[CHOOSE i \in 1..Len(UpperCase) : UpperCase[i] = c]
    ELSE c

to_lowercase(s) == [i \in 1..Len(s) |-> LowerChar(s[i])]

\* s[i], or the empty string past the end of s
At(s, i) == IF i \in 1..Len(s) THEN s[i] ELSE ""

\* str::parse::<i32>() / parse::<u32>() of a string of ASCII digits
RECURSIVE DecimalValue(_)
DecimalValue(s) ==
    IF s = <<>> THEN 0
    ELSE 10 * DecimalValue(SubSeq(s, 1, Len(s) - 1)) + DigitVal(s[Len(s)])

AllDigits(s) == s # <<>> /\ \A i \in 1..Len(s) : IsDigit(s[i])

\* a to_string that pads to two digits
to_string_padded(n) == IF n \in 0..9 THEN "0" \o ToString(n) ELSE ToString(n)

\* i32::to_string() / u32::to_string(): plain decimal, no padding
to_string(n) == ToString(n)

(***************************************************************************)
(* std::path: file_stem, extension, set_file_name, set_extension.          *)
(***************************************************************************)
\* index of the last '.' of a file name, 0 when it has none
LastDot(name) ==
    IF \E i \in 1..Len(name) : name[i] = "."
    THEN CHOOSE i \in 1..Len(name) :
            name[i] = "." /\ \A j \in (i + 1)..Len(name) : name[j] # "."
    ELSE 0

\* Path::extension() is Some: the name has a '.' that is not its first byte
has_extension(name) == LastDot(name) > 1

\* Path::extension(), when it is Some
extension(name) == SubSeq(name, LastDot(name) + 1, Len(name))

\* Path::file_stem()
file_stem(name) ==
    IF has_extension(name) THEN SubSeq(name, 1, LastDot(name) - 1) ELSE name

\* PathBuf::set_file_name
set_file_name(path, name) == [dir |-> path.dir, name |-> name]

\* PathBuf::set_extension: cut the name after its file stem, add '.' and ext
set_extension(path, ext) ==
    [dir |-> path.dir,
     name |-> file_stem(path.name) \o (IF ext = <<>> THEN <<>> ELSE <<".">> \o ext)]

\* Path::parent
parent(path) == path.dir

\* the suffix create_alternative_path appends to the stem
NewSuffix == <<"_", "n", "e", "w">>

change_file_name(path, name) ==
    LET result == set_file_name(path, name)
    IN  IF has_extension(path.name)
        THEN set_extension(result, extension(path.name))
        ELSE result

\* a create_alternative_path that forgets the suffix
create_alternative_path_no_suffix(path) ==
    change_file_name(path, file_stem(path.name))

create_alternative_path(path) ==
    change_file_name(path, file_stem(path.name) \o NewSuffix)

(***************************************************************************)
(* File types.                                                             *)
(***************************************************************************)
ImageExtensions ==
    {<<"p", "n", "g">>, <<"j", "p", "g">>, <<"j", "p", "e", "g">>, <<"t", "i", "f">>}

VideoExtensions == {<<"m", "p", "4">>, <<"m", "o", "v">>}

is_image(path) ==
    has_extension(path.name) /\ to_lowercase(extension(path.name)) \in ImageExtensions

is_video(path) ==
    has_extension(path.name) /\ to_lowercase(extension(path.name)) \in VideoExtensions

is_supported_file_type(path) ==
    /\ has_extension(path.name)
    /\ to_lowercase(extension(path.name)) \in ImageExtensions \cup VideoExtensions


(***************************************************************************)
(* Calendar values.  A NaiveDateTime is [year, month, day, secs], secs the *)
(* seconds since midnight.                                                 *)
(***************************************************************************)
NaiveDateTime(y, m, d, t) == [year |-> y, month |-> m, day |-> d, secs |-> t]

\* NaiveDate::from_ymd(y, m, 1) panics unless the triple is a calendar date
valid_ymd(y, m) == m \in 1..12 /\ y \in -262143..262142

\* the result of a step that may yield a value, nothing, or a panic
Some(v) == [tag |-> "some", value |-> v]

None == [tag |-> "none"]

Panic == [tag |-> "panic"]

\* NaiveDateTime::new(NaiveDate::from_ymd(y, m, 1), NaiveTime::from_hms(0, 0, 0))
first_of_month(y, m) ==
    IF valid_ymd(y, m) THEN Some(NaiveDateTime(y, m, 1, 0)) ELSE Panic

(***************************************************************************)
(* date_regex: (?P<y>20[012]\d)\-?(?P<m>[01]\d)\-?(?P<d>\d{2})             *)
(***************************************************************************)
\* where group m starts in a match that starts at i: after y and an optional '-'
MonthStart(s, i) == IF At(s, i + 4) = "-" THEN i + 5 ELSE i + 4

\* where group d starts: after m and an optional '-'
DayStart(s, i) ==
    IF At(s, MonthStart(s, i) + 2) = "-"
    THEN MonthStart(s, i) + 3
    ELSE MonthStart(s, i) + 2

\* the pattern matches s at index i
MatchesAt(s, i) ==
    /\ At(s, i) = "2"
    /\ At(s, i + 1) = "0"
    /\ At(s, i + 2) \in {"0", "1", "2"}
    /\ IsDigit(At(s, i + 3))
    /\ At(s, MonthStart(s, i)) \in {"0", "1"}
    /\ IsDigit(At(s, MonthStart(s, i) + 1))
    /\ IsDigit(At(s, DayStart(s, i)))
    /\ IsDigit(At(s, DayStart(s, i) + 1))

\* the index after a match that starts at i
MatchEnd(s, i) == DayStart(s, i) + 2

\* Regex::captures_iter(s).count(): the non-overlapping matches, left to right
RECURSIVE CountMatchesFrom(_, _)
CountMatchesFrom(s, i) ==
    IF i > Len(s) THEN 0
    ELSE IF MatchesAt(s, i) THEN 1 + CountMatchesFrom(s, MatchEnd(s, i))
    ELSE CountMatchesFrom(s, i + 1)

captures_count(s) == CountMatchesFrom(s, 1)

\* Regex::captures(s): the start of the leftmost match (one exists)
FirstMatch(s) ==
    CHOOSE i \in 1..Len(s) : MatchesAt(s, i) /\ \A j \in 1..(i - 1) : ~MatchesAt(s, j)

\* a closure that takes the first of several matches
extract_media_creation_time_from_filename_first_match(path) ==
    IF captures_count(path.name) >= 1
    THEN LET i == FirstMatch(path.name)
             y == DecimalValue(SubSeq(path.name, i, i + 3))
             ms == MonthStart(path.name, i)
             m == DecimalValue(SubSeq(path.name, ms, ms + 1))
         IN  first_of_month(y, m)
    ELSE None

\* the closure of extract_media_creation_time_from_filename
extract_media_creation_time_from_filename(path) ==
    IF captures_count(path.name) = 1
    THEN LET i == FirstMatch(path.name)
             y == DecimalValue(SubSeq(path.name, i, i + 3))
             ms == MonthStart(path.name, i)
             m == DecimalValue(SubSeq(path.name, ms, ms + 1))
         IN  first_of_month(y, m)
    ELSE None

(***************************************************************************)
(* str::parse::<i32>() and parse::<u32>(): an optional sign, then digits.  *)
(***************************************************************************)
parse_i32(s) ==
    IF At(s, 1) \in {"+", "-"}
    THEN IF AllDigits(Tail(s))
         THEN Some((IF s[1] = "-" THEN -1 ELSE 1) * DecimalValue(Tail(s)))
         ELSE None
    ELSE IF AllDigits(s) THEN Some(DecimalValue(s)) ELSE None

parse_u32(s) ==
    IF At(s, 1) = "+"
    THEN IF AllDigits(Tail(s)) THEN Some(DecimalValue(Tail(s))) ELSE None
    ELSE IF AllDigits(s) THEN Some(DecimalValue(s)) ELSE None

(***************************************************************************)
(* Options (the enums Mode and FileConflictResolutionMode, struct Options) *)
(***************************************************************************)
Mode == {"DryRun", "Move", "Copy"}

FileConflictResolutionMode == {"Choose", "KeepSource", "KeepTarget", "KeepBoth"}

Options ==
    [mode : Mode,
     file_conflict_resolution_mode : FileConflictResolutionMode,
     media_creation_date_file_creation_fallback : BOOLEAN,
     delete_skipped_source_duplicates : BOOLEAN,
     include_unsupported_file_types : BOOLEAN]

(***************************************************************************)
(* The file systems a run starts from.                                     *)
(***************************************************************************)
source_folder == <<"src">>

target_folder == <<"target">>

Path(dir, name) == [dir |-> dir, name |-> name]

ImgName == <<"2", "0", "2", "3", "0", "7", "1", "5", ".", "j", "p", "g">>

VidName == <<"2", "0", "2", "3", "0", "7", "1", "5", ".", "m", "p", "4">>

DotName == <<"a", ".", "b", ".", "J", "P", "G">>

TxtName == <<"a", ".", "t", "x", "t">>

\* the files visit_dirs may find under the source folder
SourceNames == {ImgName, VidName, DotName, TxtName}

\* the date the names ImgName and VidName carry
DateA == NaiveDateTime(2023, 7, 15, 43200)

DateB == NaiveDateTime(2024, 12, 24, 3600)

\* sort_file's first candidate: target_folder/year/month/file_name
target_path_unverified(source_path, date_time) ==
    Path(target_folder \o <<to_string(date_time.year)>> \o <<to_string(date_time.month)>>,
         source_path.name)

\* the date directory the pre-existing target files lie in
DirA == target_path_unverified(Path(source_folder, ImgName), DateA).dir

\* the non-empty prefixes of a directory path: what create_dir_all leaves
Ancestors(dir) == {SubSeq(dir, 1, n) : n \in 1..Len(dir)}

\* a tree of one-byte files and dangling links under the source folder
SourceTree(names, dangling) ==
    [names |-> names \cup dangling,
     files |-> [p \in {Path(source_folder, n) : n \in names} |-> 1],
     links |-> {Path(source_folder, n) : n \in dangling}]

\* the source trees: one file of each kind, a dangling link, two files that
\* carry the same date
SourceTrees ==
    {SourceTree({n}, {}) : n \in SourceNames}
    \cup {SourceTree({}, {ImgName}), SourceTree({ImgName, VidName}, {})}

\* name, name_new, name_new_new, ...: the first n candidates KeepBoth tries
RECURSIVE Chain(_, _)
Chain(path, n) ==
    IF n = 0 THEN {} ELSE {path} \cup Chain(create_alternative_path(path), n - 1)

\* the target trees a source tree is sorted into: in DirA, the first zero,
\* one or two candidates of one of its names, each of one or two bytes
TargetTrees(names) ==
    UNION {[Chain(Path(DirA, n), k) -> {1, 2}] : n \in names, k \in {0, 1, 2}}

(***************************************************************************)
(* What the metadata readers and the operator can answer.                  *)
(***************************************************************************)
\* the text of a date tag: absent, text that does not parse, or a date's text
Absent == [text |-> "absent"]

Malformed == [text |-> "malformed"]

TextOf(d) == [text |-> "date", value |-> d]

\* NaiveDateTime::parse_from_str / DateTime::parse_from_rfc3339 of a tag's text
parse_date(t) == IF t.text = "date" THEN Some(t.value) ELSE None

\* File::open and exif::Reader::read_from_container on an image
ImageReads ==
    {[kind |-> "open_failed"], [kind |-> "read_failed"]}
    \cup {[kind |-> "exif", original |-> o, generic |-> g, digitized |-> d] :
            o \in {Absent, TextOf(DateA)}, g \in {Absent, Malformed, TextOf(DateB)},
            d \in {Absent, TextOf(DateA)}}

\* ffprobe::ffprobe on a video
VideoReads ==
    {[kind |-> "probe_failed"], [kind |-> "no_tags"], [kind |-> "no_creation_time"],
     [kind |-> "creation_time", value |-> Malformed],
     [kind |-> "creation_time", value |-> TextOf(DateB)]}

\* path.metadata() and modified()/created(), as a date or nothing
FileTimes == {None, Some(DateB)}

\* tokens typed at a numbered menu; "x" is no option of it
MenuAnswers == {"1", "2", "3", "x"}

\* lines typed at the year prompt
YearInputs == {<<"2", "0", "2", "3">>, <<"2", "3">>, <<"2", "0", "x", "3">>}

\* lines typed at the month prompt
MonthInputs == {<<"0", "7">>, <<"7">>, <<"1", "3">>, <<"x", "y">>}

(***************************************************************************)
(* State.                                                                  *)
(***************************************************************************)
VARIABLES
    options,         \* the parsed command line
    files,           \* the regular files: path -> byte length
    links,           \* the dangling symbolic links
    dirs,            \* the directories
    todo,            \* the entries visit_dirs has still to hand to the callback
    target_parents,  \* main's HashSet of destination parents
    pc,              \* where the run stands
    source_path,     \* the file handle_file is working on
    candidate,       \* validate_and_resolve_path_problems' target_path_unverified
    date_time,       \* the date shown at the prompt, then the resolved date
    depth,           \* live frames of validate_and_resolve_path_problems
    tried,           \* the candidates those frames were called with
    invalid,         \* invalid answers typed at the current prompt
    year,            \* the year accepted at the year prompt
    report,          \* what handle_file reported per file
    mkdir_calls,     \* calls of fs::create_dir_all per directory
    call,            \* a function called on its own: its name and arguments
    ret              \* what that call returned

vars ==
    <<options, files, links, dirs, todo, target_parents, pc, source_path, candidate,
      date_time, depth, tried, invalid, year, report, mkdir_calls, call, ret>>

fs == <<files, links, dirs>>

NoPath == Path(<<>>, <<>>)

NoDate == NaiveDateTime(0, 0, 0, 0)

\* no function is called on its own, nothing has been returned
NoCall == [fn |-> "none"]

NoRet == [tag |-> "pending"]

\* Path::exists: follows symbolic links, so a dangling link does not exist
exists(path) == path \in DOMAIN files

Init ==
    /\ options \in Options
    /\ \E S \in SourceTrees : \E T \in TargetTrees(S.names) :
        /\ files = [p \in DOMAIN S.files \cup DOMAIN T |->
                        IF p \in DOMAIN T THEN T[p] ELSE S.files[p]]
        /\ links = S.links
        /\ dirs = {source_folder, target_folder}
                    \cup UNION {Ancestors(p.dir) : p \in DOMAIN T}
        /\ todo = DOMAIN S.files \cup S.links
    /\ target_parents = {}
    /\ pc = "idle"
    /\ source_path = NoPath
    /\ candidate = NoPath
    /\ date_time = NoDate
    /\ depth = 0
    /\ tried = {}
    /\ invalid = 0
    /\ year = 0
    /\ report = <<>>
    /\ mkdir_calls = <<>>
    /\ call = NoCall
    /\ ret = NoRet

(***************************************************************************)
(* extract_date_time, first source: the embedded metadata.                 *)
(***************************************************************************)
\* what the readers can answer for a path: a dangling link cannot be opened
MediaReads(path) ==
    IF is_image(path)
    THEN IF path \in links THEN {[kind |-> "open_failed"]} ELSE ImageReads
    ELSE IF is_video(path)
    THEN IF path \in links THEN {[kind |-> "probe_failed"]} ELSE VideoReads
    ELSE {[kind |-> "not_read"]}

\* what path.metadata() can answer for a path
FileTimesOf(path) == IF path \in links THEN {None} ELSE FileTimes

\* get_field(DateTimeOriginal).or(get_field(DateTime)).or(get_field(DateTimeDigitized))
exif_date_field(read) ==
    IF read.original # Absent THEN read.original
    ELSE IF read.generic # Absent THEN read.generic
    ELSE read.digitized

\* result_from_media_metadata: Some(date) for Ok, None for Err, and
\* [tag |-> "return"] where the ? operator leaves extract_date_time with the error
result_from_media_metadata(path, read) ==
    IF is_image(path)
    THEN IF read.kind # "exif" THEN None ELSE parse_date(exif_date_field(read))
    ELSE IF is_video(path)
    THEN IF read.kind = "probe_failed" THEN [tag |-> "return"]
         ELSE IF read.kind # "creation_time" THEN None
         ELSE parse_date(read.value)
    ELSE None

(***************************************************************************)
(* extract_date_time: the chain of the three sources.                      *)
(***************************************************************************)
\* a file-metadata step that asks the operator although the fallback is set
extract_media_creation_time_from_file_metadata_always_asks(ftime, file_creation_fallback) ==
    IF ftime.tag = "none" THEN None
    ELSE [tag |-> "prompt", value |-> ftime.value]

\* the closure of extract_media_creation_time_from_file_metadata up to its
\* menu: None, Some(file_creation_date), or [tag |-> "prompt"] where the
\* menu is printed and an answer is read
extract_media_creation_time_from_file_metadata(ftime, file_creation_fallback) ==
    IF ftime.tag = "none" THEN None
    ELSE IF file_creation_fallback THEN ftime
    ELSE [tag |-> "prompt", value |-> ftime.value]

\* the results of extract_date_time, with the sources it has run
Ok(v, ran) == [tag |-> "ok", value |-> v, consulted |-> ran]

Err(e, ran) == [tag |-> "err", error |-> e, consulted |-> ran]

\* an extract_date_time that tries the file name before the media metadata
extract_date_time_filename_first(path, read, ftime, file_creation_fallback) ==
    LET meta == result_from_media_metadata(path, read)
        name == extract_media_creation_time_from_filename(path)
        time == extract_media_creation_time_from_file_metadata(
                    ftime, file_creation_fallback)
    IN  IF name.tag = "panic" THEN [tag |-> "panic", consulted |-> <<"filename">>]
        ELSE IF name.tag = "some" THEN Ok(name.value, <<"filename">>)
        ELSE IF meta.tag = "return" THEN Err("err_probe", <<"filename", "media">>)
        ELSE IF meta.tag = "some" THEN Ok(meta.value, <<"filename", "media">>)
        ELSE IF time.tag = "none"
        THEN Err("err_date", <<"filename", "media", "file_metadata">>)
        ELSE IF time.tag = "some"
        THEN Ok(time.value, <<"filename", "media", "file_metadata">>)
        ELSE [tag |-> "prompt", value |-> time.value,
              consulted |-> <<"filename", "media", "file_metadata">>]

\* extract_date_time up to the operator's menu: Ok(date), Err(report), a
\* panic, or [tag |-> "prompt"] where the file-metadata closure asks; or_else
\* runs a closure only when what came before it is None
extract_date_time(path, read, ftime, file_creation_fallback) ==
    LET meta == result_from_media_metadata(path, read)
        name == extract_media_creation_time_from_filename(path)
        time == extract_media_creation_time_from_file_metadata(
                    ftime, file_creation_fallback)
    IN  IF meta.tag = "return" THEN Err("err_probe", <<"media">>)
        ELSE IF meta.tag = "some" THEN Ok(meta.value, <<"media">>)
        ELSE IF name.tag = "panic"
        THEN [tag |-> "panic", consulted |-> <<"media", "filename">>]
        ELSE IF name.tag = "some" THEN Ok(name.value, <<"media", "filename">>)
        ELSE IF time.tag = "none"
        THEN Err("err_date", <<"media", "filename", "file_metadata">>)
        ELSE IF time.tag = "some"
        THEN Ok(time.value, <<"media", "filename", "file_metadata">>)
        ELSE [tag |-> "prompt", value |-> time.value,
              consulted |-> <<"media", "filename", "file_metadata">>]

(***************************************************************************)
(* Steps shared by the actions.                                            *)
(***************************************************************************)
ErrorReports ==
    {"err_date", "err_probe", "err_mkdir", "err_rename", "err_copy", "err_remove"}

\* a handle_file whose Err arm ends the run instead of printing the error
EndFile_error_ends_run(e, r) ==
    /\ report' = (e :> r) @@ report
    /\ pc' = IF r \in ErrorReports THEN "panicked" ELSE "idle"
    /\ source_path' = NoPath
    /\ candidate' = NoPath
    /\ date_time' = NoDate
    /\ depth' = 0
    /\ tried' = {}
    /\ invalid' = 0
    /\ year' = 0

\* handle_file's match arm has run for file e: back to visit_dirs
EndFile(e, r) ==
    /\ report' = (e :> r) @@ report
    /\ pc' = "idle"
    /\ source_path' = NoPath
    /\ candidate' = NoPath
    /\ date_time' = NoDate
    /\ depth' = 0
    /\ tried' = {}
    /\ invalid' = 0
    /\ year' = 0

\* the process dies: a panic, or the stack is exhausted
Die(how) ==
    /\ pc' = how
    /\ UNCHANGED <<source_path, candidate, date_time, depth, tried, invalid, year,
                   report>>

\* extract_date_time returned Ok(d) for file e: sort_file builds the first
\* candidate and calls validate_and_resolve_path_problems
StartSort(e, d) ==
    /\ source_path' = e
    /\ date_time' = d
    /\ candidate' = target_path_unverified(e, d)
    /\ pc' = "validate"
    /\ depth' = 1
    /\ tried' = {target_path_unverified(e, d)}
    /\ invalid' = 0
    /\ year' = 0
    /\ UNCHANGED report

\* an answer the prompt rejects: it is asked again
Reprompt ==
    /\ invalid < MaxInvalid
    /\ invalid' = invalid + 1
    /\ UNCHANGED <<pc, source_path, candidate, date_time, depth, tried, year, report>>

(***************************************************************************)
(* handle_file up to the first prompt: the type check and extract_date_time*)
(***************************************************************************)
HandleFile(e, read, ftime) ==
    /\ pc = "idle"
    /\ e \in todo
    /\ todo' = todo \ {e}
    /\ UNCHANGED <<options, fs, target_parents, mkdir_calls, call, ret>>
    /\ IF ~(is_supported_file_type(e) \/ options.include_unsupported_file_types)
       THEN EndFile(e, "unsupported")
       ELSE LET date_time_result ==
                    extract_date_time(e, read, ftime,
                        options.media_creation_date_file_creation_fallback)
            IN  CASE date_time_result.tag = "err" -> EndFile(e, date_time_result.error)
                  [] date_time_result.tag = "ok" -> StartSort(e, date_time_result.value)
                  [] date_time_result.tag = "panic" -> Die("panicked")
                  [] date_time_result.tag = "prompt" ->
                        /\ pc' = "date_prompt"
                        /\ source_path' = e
                        /\ date_time' = date_time_result.value
                        /\ UNCHANGED <<candidate, depth, tried, invalid, year, report>>

(***************************************************************************)
(* extract_media_creation_time_from_file_metadata: the operator's menu.    *)
(***************************************************************************)
DatePrompt(answer) ==
    /\ pc = "date_prompt"
    /\ UNCHANGED <<options, fs, todo, target_parents, mkdir_calls, call, ret>>
    /\ CASE answer = "1" -> StartSort(source_path, date_time)
         [] answer = "2" ->
                /\ pc' = "year_prompt"
                /\ invalid' = 0
                /\ UNCHANGED <<source_path, candidate, date_time, depth, tried, year,
                               report>>
         [] answer = "3" -> EndFile(source_path, "err_date")
         [] OTHER -> Reprompt

YearPrompt(input) ==
    /\ pc = "year_prompt"
    /\ UNCHANGED <<options, fs, todo, target_parents, mkdir_calls, call, ret>>
    /\ IF Len(input) # 4 \/ parse_i32(input).tag = "none"
       THEN Reprompt
       ELSE /\ year' = parse_i32(input).value
            /\ pc' = "month_prompt"
            /\ invalid' = 0
            /\ UNCHANGED <<source_path, candidate, date_time, depth, tried, report>>

MonthPrompt(input) ==
    /\ pc = "month_prompt"
    /\ UNCHANGED <<options, fs, todo, target_parents, mkdir_calls, call, ret>>
    /\ IF Len(input) # 2 \/ parse_u32(input).tag = "none"
       THEN Reprompt
       ELSE LET d == first_of_month(year, parse_u32(input).value)
            IN  IF d.tag = "panic" THEN Die("panicked")
                ELSE StartSort(source_path, d.value)

(***************************************************************************)
(* Placement: validate_and_resolve_path_problems and                       *)
(* handle_file_exists_at_target.                                           *)
(***************************************************************************)
\* a handle_file_exists_at_target that does not compare the sizes
handle_file_exists_at_target_no_size_check(src, tgt, conflict_mode) ==
    IF src \notin DOMAIN files \/ tgt \notin DOMAIN files THEN Panic
    ELSE CASE conflict_mode = "Choose" -> [tag |-> "ask"]
           [] conflict_mode = "KeepSource" -> Some(tgt)
           [] conflict_mode = "KeepTarget" -> None
           [] conflict_mode = "KeepBoth" -> Some(create_alternative_path(tgt))

\* handle_file_exists_at_target: None (skip), Some(path), Panic where
\* metadata().unwrap() fails, and [tag |-> "ask"] where Choose reads an answer
handle_file_exists_at_target(src, tgt, conflict_mode) ==
    IF src \notin DOMAIN files \/ tgt \notin DOMAIN files THEN Panic
    ELSE IF files[src] = files[tgt] THEN None
    ELSE CASE conflict_mode = "Choose" -> [tag |-> "ask"]
           [] conflict_mode = "KeepSource" -> Some(tgt)
           [] conflict_mode = "KeepTarget" -> None
           [] conflict_mode = "KeepBoth" -> Some(create_alternative_path(tgt))

\* the answer read under Choose, once it is one of the three options
chosen_resolution(tgt, answer) ==
    CASE answer = "1" -> Some(tgt)
      [] answer = "2" -> None
      [] answer = "3" -> Some(create_alternative_path(tgt))

\* the Some arm: validate_and_resolve_path_problems calls itself on the path
Recurse(path_resolution) ==
    IF depth < MaxDepth
    THEN /\ candidate' = path_resolution
         /\ depth' = depth + 1
         /\ tried' = tried \cup {path_resolution}
         /\ pc' = "validate"
         /\ invalid' = 0
         /\ UNCHANGED <<source_path, date_time, year, report, fs>>
    ELSE Die("overflow") /\ UNCHANGED fs

\* the modes in which a skipped source is removed
removes_skipped_source(mode) == mode = "Move"

\* the None arm: the file is skipped, and its source deleted if asked for
SkipSource(rm_ok) ==
    IF /\ options.delete_skipped_source_duplicates
       /\ removes_skipped_source(options.mode)
    THEN IF rm_ok /\ source_path \in DOMAIN files \cup links
         THEN /\ files' = [p \in DOMAIN files \ {source_path} |-> files[p]]
              /\ links' = links \ {source_path}
              /\ UNCHANGED dirs
              /\ EndFile(source_path, "skipped")
         ELSE /\ UNCHANGED fs
              /\ EndFile(source_path, "err_remove")
    ELSE /\ UNCHANGED fs
         /\ EndFile(source_path, "skipped")

\* one call of validate_and_resolve_path_problems
Validate(rm_ok) ==
    /\ pc = "validate"
    /\ UNCHANGED <<options, todo, target_parents, mkdir_calls, call, ret>>
    /\ IF ~exists(candidate)
       THEN /\ pc' = "relocate"
            /\ depth' = 0
            /\ UNCHANGED <<source_path, candidate, date_time, tried, invalid, year,
                           report, fs>>
       ELSE LET r == handle_file_exists_at_target(
                        source_path, candidate, options.file_conflict_resolution_mode)
            IN  CASE r.tag = "panic" -> Die("panicked") /\ UNCHANGED fs
                  [] r.tag = "ask" ->
                        /\ pc' = "conflict_prompt"
                        /\ UNCHANGED <<source_path, candidate, date_time, depth,
                                       tried, invalid, year, report, fs>>
                  [] r.tag = "some" -> Recurse(r.value)
                  [] r.tag = "none" -> SkipSource(rm_ok)

\* the operator answers the Choose menu
ConflictPrompt(answer, rm_ok) ==
    /\ pc = "conflict_prompt"
    /\ UNCHANGED <<options, todo, target_parents, mkdir_calls, call, ret>>
    /\ IF answer \notin {"1", "2", "3"}
       THEN Reprompt /\ UNCHANGED fs
       ELSE LET r == chosen_resolution(candidate, answer)
            IN  IF r.tag = "some" THEN Recurse(r.value) ELSE SkipSource(rm_ok)

(***************************************************************************)
(* Relocation: the rest of sort_file, and handle_file's Ok(Some) arm.      *)
(***************************************************************************)
\* a sort_file whose dry run copies
relocation_dry_run_copies(mode) ==
    CASE mode = "DryRun" -> "copy"
      [] mode = "Move" -> "rename"
      [] mode = "Copy" -> "copy"

\* what sort_file does with a valid path, per mode
relocation(mode) ==
    CASE mode = "DryRun" -> "print"
      [] mode = "Move" -> "rename"
      [] mode = "Copy" -> "copy"

\* handle_missing_parents calls fs::create_dir_all
calls_create_dir_all(target_path) == parent(target_path) \notin target_parents

\* the regular files after fs::rename(src, dst) succeeded
files_after_rename(src, dst) ==
    IF src = dst THEN files
    ELSE IF src \in DOMAIN files
    THEN [p \in (DOMAIN files \ {src}) \cup {dst} |->
            IF p = dst THEN files[src] ELSE files[p]]
    ELSE [p \in DOMAIN files \ {dst} |-> files[p]]

\* the dangling links after fs::rename(src, dst) succeeded
links_after_rename(src, dst) ==
    IF src = dst THEN links
    ELSE IF src \in links THEN (links \ {src}) \cup {dst}
    ELSE links \ {dst}

\* the regular files after fs::copy(src, dst) succeeded
files_after_copy(src, dst) ==
    [p \in DOMAIN files \cup {dst} |->
        IF p # dst THEN files[p] ELSE IF src = dst THEN 0 ELSE files[src]]

\* handle_file's Ok(Some(target_file)) arm
insert_parent(target_file) == target_parents \cup {parent(target_file)}

Relocate(mk_ok, op_ok) ==
    /\ pc = "relocate"
    /\ UNCHANGED <<options, todo, call, ret>>
    /\ LET how == relocation(options.mode)
           dir == parent(candidate)
           mkdir == how # "print" /\ calls_create_dir_all(candidate)
           mkdir_fails == mkdir /\ dir \notin dirs /\ ~mk_ok
           op_succeeds ==
               /\ op_ok
               /\ IF how = "rename"
                  THEN source_path \in DOMAIN files \cup links
                  ELSE source_path \in DOMAIN files
       IN  /\ mkdir_calls' =
                IF ~mkdir THEN mkdir_calls
                ELSE IF dir \in DOMAIN mkdir_calls
                THEN [mkdir_calls EXCEPT ![dir] = @ + 1]
                ELSE (dir :> 1) @@ mkdir_calls
           /\ dirs' = IF mkdir /\ ~mkdir_fails THEN dirs \cup Ancestors(dir) ELSE dirs
           /\ IF mkdir_fails
              THEN /\ UNCHANGED <<files, links, target_parents>>
                   /\ EndFile(source_path, "err_mkdir")
              ELSE IF how = "print"
              THEN /\ UNCHANGED <<files, links>>
                   /\ target_parents' = insert_parent(candidate)
                   /\ EndFile(source_path, "placed")
              ELSE IF ~op_succeeds
              THEN /\ UNCHANGED <<files, links, target_parents>>
                   /\ EndFile(source_path, IF how = "rename" THEN "err_rename" ELSE "err_copy")
              ELSE /\ files' = IF how = "rename"
                               THEN files_after_rename(source_path, candidate)
                               ELSE files_after_copy(source_path, candidate)
                   /\ links' = IF how = "rename"
                               THEN links_after_rename(source_path, candidate)
                               ELSE links \ {candidate}
                   /\ target_parents' = insert_parent(candidate)
                   /\ EndFile(source_path, "placed")

\* visit_dirs has handed every entry to the callback: main returns
Done == pc = "idle" /\ todo = {}

Next ==
    \/ \E e \in todo : \E read \in MediaReads(e), ftime \in FileTimesOf(e) :
            HandleFile(e, read, ftime)
    \/ \E answer \in MenuAnswers : DatePrompt(answer)
    \/ \E input \in YearInputs : YearPrompt(input)
    \/ \E input \in MonthInputs : MonthPrompt(input)
    \/ \E rm_ok \in BOOLEAN : Validate(rm_ok)
    \/ \E answer \in MenuAnswers, rm_ok \in BOOLEAN : ConflictPrompt(answer, rm_ok)
    \/ \E mk_ok \in BOOLEAN, op_ok \in BOOLEAN : Relocate(mk_ok, op_ok)

Spec == Init /\ [][Next]_vars

(***************************************************************************)
(* A run whose source folder is its target folder: parse_options takes any *)
(* two folders, and visit_dirs then hands the sorted files to the callback *)
(* too.                                                                    *)
(***************************************************************************)
\* where a file of a tree lies: at its place under DirA, in the root of the
\* target folder, or one file at each
InPlacePlacements(name) ==
    {{Path(DirA, name)}, {Path(target_folder, name)},
     {Path(DirA, name), Path(target_folder, name)}}

\* the trees under the target folder: files of one name, of one or two bytes
InPlaceTrees ==
    UNION {[placed -> {1, 2}] :
            placed \in UNION {InPlacePlacements(n) : n \in {ImgName, DotName}}}

InPlaceInit ==
    /\ options \in Options
    /\ files \in InPlaceTrees
    /\ links = {}
    /\ dirs = {target_folder} \cup UNION {Ancestors(p.dir) : p \in DOMAIN files}
    /\ todo = DOMAIN files
    /\ target_parents = {}
    /\ pc = "idle"
    /\ source_path = NoPath
    /\ candidate = NoPath
    /\ date_time = NoDate
    /\ depth = 0
    /\ tried = {}
    /\ invalid = 0
    /\ year = 0
    /\ report = <<>>
    /\ mkdir_calls = <<>>
    /\ call = NoCall
    /\ ret = NoRet

InPlaceSpec == InPlaceInit /\ [][Next]_vars

(***************************************************************************)
(* The functions of the program called on their own, on arguments a run    *)
(* can hand them: extract_date_time, sort_file's first candidate and       *)
(* create_alternative_path.                                                *)
(***************************************************************************)
\* the year and month digits date_regex can capture
YearCaptures == {<<"2", "0", "0", "0">>, <<"2", "0", "2", "3">>, <<"2", "0", "2", "9">>}

MonthCaptures ==
    {<<"0", "0">>, <<"0", "7">>, <<"1", "2">>, <<"1", "3">>, <<"1", "9">>}

\* a file name that carries the pattern once: year, month, day 01
DatedName(y, m) == y \o m \o <<"0", "1", ".", "j", "p", "g">>

\* a file name that carries the pattern twice
TwoDatesName ==
    <<"2", "0", "2", "3", "0", "7", "1", "5", "_",
      "2", "0", "2", "4", "1", "2", "2", "4", ".", "j", "p", "g">>

\* a video whose name carries the pattern once, with dashes
DashedName == <<"2", "0", "2", "3", "-", "0", "7", "-", "1", "5", ".", "m", "p", "4">>

\* names without an extension, with a leading dot, with a trailing dot
BareName == <<"a">>

HiddenName == <<".", "a">>

TrailingDotName == <<"a", ".">>

\* the file names extract_date_time is called with
CallNames ==
    {DatedName(y, m) : y \in YearCaptures, m \in MonthCaptures}
    \cup {ImgName, VidName, DotName, TxtName, TwoDatesName, DashedName, BareName}

\* what the readers can answer for a file that is no dangling link
ReadsOf(path) ==
    IF is_image(path) THEN ImageReads
    ELSE IF is_video(path) THEN VideoReads
    ELSE {[kind |-> "not_read"]}

ExtractDateTimeCalls ==
    UNION {{[fn |-> "extract_date_time", path |-> Path(source_folder, n), read |-> r,
             ftime |-> t, file_creation_fallback |-> b] :
                r \in ReadsOf(Path(source_folder, n)), t \in FileTimes, b \in BOOLEAN} :
           n \in CallNames}

\* the dates sort_file is called with: years and months of one and more
\* digits, any day and time
SortDates ==
    {NaiveDateTime(y, m, d, t) :
        y \in {5, 2023}, m \in {1, 7, 10, 12}, d \in {1, 15}, t \in {0, 43200}}

TargetPathCalls ==
    {[fn |-> "target_path_unverified", source_path |-> Path(dir, n), date_time |-> d] :
        dir \in {source_folder, source_folder \o <<"sub">>}, n \in {ImgName, DotName},
        d \in SortDates}

\* the candidates create_alternative_path is called with
AlternativePathCalls ==
    {[fn |-> "create_alternative_path", path |-> Path(dir, n)] :
        dir \in {target_folder, DirA},
        n \in {ImgName, VidName, DotName, TxtName, BareName, HiddenName,
                TrailingDotName}}

Calls == ExtractDateTimeCalls \cup TargetPathCalls \cup AlternativePathCalls

\* the state of a run, which a call on its own leaves alone
run ==
    <<options, files, links, dirs, todo, target_parents, pc, source_path, candidate,
      date_time, depth, tried, invalid, year, report, mkdir_calls>>

CallInit ==
    /\ call \in Calls
    /\ ret = NoRet
    /\ options = [mode |-> "DryRun", file_conflict_resolution_mode |-> "Choose",
                  media_creation_date_file_creation_fallback |-> FALSE,
                  delete_skipped_source_duplicates |-> FALSE,
                  include_unsupported_file_types |-> FALSE]
    /\ files = <<>>
    /\ links = {}
    /\ dirs = {}
    /\ todo = {}
    /\ target_parents = {}
    /\ pc = "idle"
    /\ source_path = NoPath
    /\ candidate = NoPath
    /\ date_time = NoDate
    /\ depth = 0
    /\ tried = {}
    /\ invalid = 0
    /\ year = 0
    /\ report = <<>>
    /\ mkdir_calls = <<>>

CallExtractDateTime ==
    /\ call.fn = "extract_date_time"
    /\ ret = NoRet
    /\ ret' = extract_date_time(call.path, call.read, call.ftime,
                                call.file_creation_fallback)
    /\ UNCHANGED <<call, run>>

CallTargetPath ==
    /\ call.fn = "target_path_unverified"
    /\ ret = NoRet
    /\ ret' = target_path_unverified(call.source_path, call.date_time)
    /\ UNCHANGED <<call, run>>

CallCreateAlternativePath ==
    /\ call.fn = "create_alternative_path"
    /\ ret = NoRet
    /\ ret' = create_alternative_path(call.path)
    /\ UNCHANGED <<call, run>>

CallNext == CallExtractDateTime \/ CallTargetPath \/ CallCreateAlternativePath

CallSpec == CallInit /\ [][CallNext]_vars

(***************************************************************************)
(* Properties.                                                             *)
(***************************************************************************)
\* the candidate exists and its size differs from the source's
GenuineConflict ==
    /\ pc = "validate"
    /\ exists(candidate)
    /\ source_path \in DOMAIN files
    /\ files[source_path] # files[candidate]

\* the candidate exists and has the byte length of the source
SameSizeConflict ==
    /\ pc = "validate"
    /\ exists(candidate)
    /\ source_path \in DOMAIN files
    /\ files[source_path] = files[candidate]

\* the candidate exists and the source cannot be stat'ed
StatFails ==
    /\ pc = "validate"
    /\ exists(candidate)
    /\ source_path \notin DOMAIN files

KeepBoth == options.file_conflict_resolution_mode = "KeepBoth"

\* a step leaves every file but the source it is handling as it is
OtherFilesKept ==
    \A p \in DOMAIN files \ {source_path} :
        p \in DOMAIN files' /\ files'[p] = files[p]

\* C1: under KeepSource, a step of the resolution that finds the candidate
\* existing with a size other than the source's ends the resolution with
\* Place(candidate): the candidate, unchanged, is handed to the relocation.
C1_KeepSourcePlacesCandidate ==
    [][(GenuineConflict /\ options.file_conflict_resolution_mode = "KeepSource")
        => (pc' = "relocate" /\ candidate' = candidate)]_vars

\* C2: under KeepBoth the resolution never exhausts the stack and never
\* prompts; the candidates of its frames are pairwise different, all but the
\* current one exist (so the frames are at most one more than the files
\* there are), each recursion step calls with a candidate not tried before,
\* a Place(p) names a path that does not exist, and no step changes or
\* removes a file other than the source it is handling.
C2_KeepBothTerminatesWithoutOverwrite ==
    /\ [](KeepBoth =>
            /\ pc \notin {"overflow", "conflict_prompt"}
            /\ pc = "validate" =>
                /\ Cardinality(tried) = depth
                /\ tried \ {candidate} \subseteq DOMAIN files \ {source_path}
                /\ depth <= Cardinality(DOMAIN files \ {source_path}) + 1
            /\ pc = "relocate" => ~exists(candidate))
    /\ [][KeepBoth =>
            /\ (pc = "validate" /\ pc' = "validate") => candidate' \notin tried
            /\ OtherFilesKept]_vars

\* C2's case: KeepBoth placed a file after two existing candidates
C2_Witness == KeepBoth /\ pc = "relocate" /\ Cardinality(tried) = 3

\* C3: when the candidate exists with the byte length of the source,
\* handle_file_exists_at_target answers skip in every conflict mode, and the
\* step ends the file without a prompt, without a recursion and without a
\* placement; the file at the candidate stays, with its length, and no file
\* appears under a new name.
C3_EqualSizeSkips ==
    /\ [](SameSizeConflict =>
            \A m \in FileConflictResolutionMode :
                handle_file_exists_at_target(source_path, candidate, m) = None)
    /\ [][SameSizeConflict =>
            /\ pc' = "idle"
            /\ \/ report'[source_path] = "skipped"
               \/ report'[source_path] = "err_remove" /\ source_path \in DOMAIN files'
            /\ candidate # source_path => candidate \in DOMAIN files'
            /\ candidate \in DOMAIN files' => files'[candidate] = files[candidate]
            /\ DOMAIN files' \subseteq DOMAIN files]_vars

\* C3's case: a file was skipped under KeepSource, which skips nothing but
\* a candidate of the source's length
C3_Witness ==
    /\ options.file_conflict_resolution_mode = "KeepSource"
    /\ \E e \in DOMAIN report : report[e] = "skipped"

\* C4: a file resolved to Skip has lost its source exactly when the
\* delete-skipped-source-duplicates option is set and the mode is not DryRun.
C4_SkippedSourceDeletedUnlessDryRun ==
    \A e \in DOMAIN report :
        report[e] = "skipped" =>
            (e \notin DOMAIN files \cup links
                <=> (options.delete_skipped_source_duplicates /\ options.mode # "DryRun"))

\* C5: in DryRun mode no step changes the files, the links or the directories.
C5_DryRunLeavesFilesystem == [][options.mode = "DryRun" => UNCHANGED fs]_vars

\* C5's case: a dry run with the delete option placed one file and skipped
\* another
C5_Witness ==
    /\ options.mode = "DryRun"
    /\ options.delete_skipped_source_duplicates
    /\ \E e \in DOMAIN report : report[e] = "placed"
    /\ \E e \in DOMAIN report : report[e] = "skipped"

\* C6: in Move or Copy mode, in a run in which no create_dir_all has failed,
\* create_dir_all has been called at most once per destination parent,
\* whatever became of the moves and copies.
C6_OneCreateDirPerParent ==
    (/\ options.mode \in {"Move", "Copy"}
     /\ \A e \in DOMAIN report : report[e] # "err_mkdir")
        => \A d \in DOMAIN mkdir_calls : mkdir_calls[d] <= 1

\* C7: in every mode, every path of target_parents is an existing directory.
C7_KnownParentsExist == target_parents \subseteq dirs

\* C8: a failing stat of the source during conflict resolution ends the file
\* with an error report and the run goes on with the next file.
C8_StatFailureIsPerFileError ==
    [][StatFails => (pc' = "idle" /\ report'[source_path] \in ErrorReports)]_vars

\* C9: when the operator answers "skip the file" at the date prompt, the file
\* is reported as skipped, not as an error, and the file system is unchanged.
C9_PromptSkipIsNotAnError ==
    [][(pc = "date_prompt" /\ pc' = "idle")
        => (report'[source_path] = "skipped" /\ UNCHANGED fs)]_vars

\* C10: for an image or a video whose name carries the date pattern once, no
\* failure of the metadata step ends the file with a date error: the date
\* resolution goes on to the file name.
C10_MetadataFailureSwallowed ==
    \A e \in DOMAIN report :
        ((is_image(e) \/ is_video(e)) /\ captures_count(e.name) = 1)
            => report[e] \notin {"err_probe", "err_date"}

\* C11: under Choose, each answer to the conflict menu is applied as its fixed
\* mode prescribes: override ends the resolution with Place(candidate), skip
\* ends the file as skipped, rename runs the resolution again on the `_new`
\* name, and any other answer asks again and changes nothing.
C11_ChooseAppliesAnswer ==
    [][pc = "conflict_prompt" =>
        \/ pc' = "relocate" /\ candidate' = candidate
        \/ pc' = "idle" /\ report'[source_path] \in {"skipped", "err_remove"}
        \/ /\ pc' = "validate"
           /\ candidate' = create_alternative_path(candidate)
           /\ UNCHANGED fs
        \/ /\ pc' = "conflict_prompt"
           /\ UNCHANGED <<fs, source_path, candidate, report, target_parents>>]_vars

\* extract_date_time has returned from a call on its own
ExtractReturned == call.fn = "extract_date_time" /\ ret # NoRet

\* the elements of a sequence
Range(seq) == {seq[i] : i \in 1..Len(seq)}

\* C12: when the embedded metadata date of a file parses, extract_date_time
\* returns exactly that value, whatever the file name and the file times
\* are, having consulted nothing else and without a prompt; the file name is
\* consulted only after the metadata gave nothing, the file times only after
\* the file name gave nothing too.
C12_MetadataDateWins ==
    ExtractReturned =>
        LET meta == result_from_media_metadata(call.path, call.read)
            name == extract_media_creation_time_from_filename(call.path)
        IN  /\ meta.tag = "some" => ret = Ok(meta.value, <<"media">>)
            /\ "filename" \in Range(ret.consulted) => meta = None
            /\ "file_metadata" \in Range(ret.consulted) => (meta = None /\ name = None)

\* C12's case: the metadata date was returned for a file whose name carries
\* another date and whose file times are a third
C12_Witness ==
    /\ ExtractReturned
    /\ call.path.name = DatedName(<<"2", "0", "0", "0">>, <<"1", "2">>)
    /\ call.ftime = Some(DateB)
    /\ ~call.file_creation_fallback
    /\ ret = Ok(DateA, <<"media">>)

\* C13: for a file name that carries the pattern exactly once and a file
\* without usable embedded metadata, extract_date_time returns the first of
\* the captured month of the captured year, at midnight, for every year and
\* month the pattern can capture.
C13_FilenameDateIsCaptured ==
    ExtractReturned =>
        \A y \in YearCaptures, m \in MonthCaptures :
            (/\ call.path.name = DatedName(y, m)
             /\ captures_count(call.path.name) = 1
             /\ result_from_media_metadata(call.path, call.read) = None)
                => /\ ret.tag = "ok"
                   /\ ret.value = NaiveDateTime(DecimalValue(y), DecimalValue(m), 1, 0)

\* C14: for a file name that carries the pattern zero times or more than
\* once, and a file without usable embedded metadata, the file-name closure
\* yields nothing and extract_date_time goes on to the file times: its result
\* is what the file times give, never a date taken from the name.
C14_AmbiguousNameFallsThrough ==
    ExtractReturned =>
        ((/\ captures_count(call.path.name) # 1
          /\ result_from_media_metadata(call.path, call.read) = None)
            => /\ extract_media_creation_time_from_filename(call.path) = None
               /\ ret.consulted = <<"media", "filename", "file_metadata">>
               /\ IF call.ftime = None
                  THEN ret.tag = "err" /\ ret.error = "err_date"
                  ELSE /\ ret.tag \in {"ok", "prompt"}
                       /\ ret.value = call.ftime.value)

\* C14's case: a name with two dates, and the date returned is the file's
C14_Witness ==
    /\ ExtractReturned
    /\ call.path.name = TwoDatesName
    /\ captures_count(call.path.name) = 2
    /\ ret.tag = "ok"
    /\ ret.value = DateB
    /\ "file_metadata" \in Range(ret.consulted)

\* C15: a step that ends a file with an error report (date, mkdir, rename,
\* copy, remove) changes no file and no link, the source is still at its
\* path, and the run is back in visit_dirs with the remaining entries to go;
\* the source is still there, with its length, for the rest of the run.
C15_ErrorLeavesSourceAndGoesOn ==
    /\ [][\A e \in DOMAIN report' \ DOMAIN report :
            report'[e] \in ErrorReports =>
                /\ UNCHANGED <<files, links>>
                /\ e \in DOMAIN files \cup links
                /\ pc' = "idle"
                /\ todo' = todo \ {e}]_vars
    /\ [](\A e \in DOMAIN report :
            report[e] \in ErrorReports =>
                /\ e \in DOMAIN files \cup links
                /\ e \in DOMAIN files => files[e] = 1)

\* C15's case: a move failed for one file and the run is at work on the next
C15_Witness ==
    /\ \E e \in DOMAIN report : report[e] = "err_rename" /\ e # source_path
    /\ pc = "relocate"

\* sort_file's first candidate has been computed in a call on its own
TargetPathReturned == call.fn = "target_path_unverified" /\ ret # NoRet

\* a natural number written in decimal digits, most significant first,
\* without padding
RECURSIVE PlainDecimal(_)
PlainDecimal(n) ==
    IF n < 10 THEN Digits[n + 1]
    ELSE PlainDecimal(n \div 10) \o Digits[(n % 10) + 1]

\* C16: the first candidate for a file and a date is the target folder, then
\* the year and the month in plain decimal without padding, then the file's
\* name unchanged; the day, the time and the source directory play no part.
C16_FirstCandidateIsYearMonthName ==
    TargetPathReturned =>
        /\ ret.dir = target_folder \o <<PlainDecimal(call.date_time.year),
                                        PlainDecimal(call.date_time.month)>>
        /\ ret.name = call.source_path.name

\* C16's case: a file from a subfolder, dated July 15th 2023 at noon, goes to
\* target/2023/7
C16_Witness ==
    /\ TargetPathReturned
    /\ call.source_path = Path(source_folder \o <<"sub">>, DotName)
    /\ call.date_time = DateA
    /\ ret = Path(<<"target", "2023", "7">>, DotName)

\* C17: once extract_date_time has come to the file times: with the fallback
\* set and a file time obtained it returns that time and does not prompt;
\* it prompts only with the fallback not set and a file time obtained, and
\* offers that time; without a file time it returns the date error and does
\* not prompt.
C17_FallbackAcceptsWithoutPrompt ==
    ExtractReturned =>
        /\ "file_metadata" \in Range(ret.consulted) =>
            /\ (call.file_creation_fallback /\ call.ftime # None)
                    => ret.tag = "ok" /\ ret.value = call.ftime.value
            /\ call.ftime = None => ret.tag = "err" /\ ret.error = "err_date"
        /\ ret.tag = "prompt" =>
            /\ ~call.file_creation_fallback
            /\ call.ftime # None
            /\ ret.value = call.ftime.value

\* C17's case: the fallback is set, the name has no date, and the file time
\* was returned
C17_Witness ==
    /\ ExtractReturned
    /\ call.file_creation_fallback
    /\ call.path.name = TxtName
    /\ ret = Ok(DateB, <<"media", "filename", "file_metadata">>)

\* C18: for an image whose original tag is absent and whose digitized and
\* generic tags are both present, each with a date, the date used is the
\* digitized tag's.
C18_DigitizedBeforeGeneric ==
    ExtractReturned =>
        ((/\ is_image(call.path)
          /\ call.read.kind = "exif"
          /\ call.read.original = Absent
          /\ parse_date(call.read.digitized) # None
          /\ parse_date(call.read.generic) # None)
            => ret.tag = "ok" /\ Some(ret.value) = parse_date(call.read.digitized))

\* create_alternative_path has returned from a call on its own
AlternativePathReturned == call.fn = "create_alternative_path" /\ ret # NoRet

\* C19: the alternate path of a candidate lies in the candidate's directory
\* and is named by the candidate's file stem, then `_new`, then the
\* candidate's extension unchanged (nothing, for a name without one).
C19_AlternativeKeepsStemAndExtension ==
    AlternativePathReturned =>
        /\ ret.dir = call.path.dir
        /\ ret.name =
            file_stem(call.path.name) \o NewSuffix
                \o (IF has_extension(call.path.name) /\ extension(call.path.name) # <<>>
                    THEN <<".">> \o extension(call.path.name)
                    ELSE <<>>)

\* C20: in the manual entry, a step from the year prompt asks again or goes
\* on to the month prompt, and a step from the month prompt asks again or
\* returns the first of the entered month of the entered year, at midnight:
\* no input ends the run.
C20_ManualEntryYieldsDate ==
    [][/\ pc = "year_prompt" => pc' \in {"year_prompt", "month_prompt"}
       /\ pc = "month_prompt" =>
            \/ pc' = "month_prompt" /\ UNCHANGED <<year, fs, report>>
            \/ /\ pc' = "validate"
               /\ date_time'.year = year
               /\ date_time'.day = 1
               /\ date_time'.secs = 0]_vars

\* a step that ends a file by removing its source
SourceRemoved ==
    /\ pc \in {"validate", "conflict_prompt"}
    /\ pc' = "idle"
    /\ source_path \in DOMAIN files \cup links
    /\ source_path \notin DOMAIN files' \cup links'

\* C21: a step that deletes a skipped source leaves a file at the candidate
\* destination, with the length it had: the path deleted is never the
\* destination itself, also when the source folder is the target folder
\* and the file already lies at its destination.
C21_DeletedSourceLeavesDestination ==
    [][SourceRemoved =>
        /\ candidate \in DOMAIN files'
        /\ files'[candidate] = files[candidate]]_vars

=============================================================================
